---- MODULE Spec2Model ----
(***************************************************************************)
(* Road-side application log (src/App.tsx): the App component's state, its *)
(* handlers, its effects and the document collection it writes to.         *)
(*                                                                         *)
(* Numbers.  Gallons and ounces are decimals in the program.  Here a       *)
(* volume is an integer count of thousandths (600 gal = 600000), so that   *)
(* toFixed(2) is a real rounding (to a multiple of 10) and the 0.01 gal    *)
(* epsilon of performRefill is 10.  ozPerGal is a count of 1/10000 oz/gal  *)
(* (toFixed(4)).                                                           *)
(*                                                                         *)
(* Text.  A string is a sequence of tokens; the token " " is white space,  *)
(* so that String.trim() is a real operation.                              *)
(***************************************************************************)
EXTENDS Integers, Sequences, FiniteSets, TLC

VARIABLES
    configPresent,      \* window.__firebase_config was supplied
    initPhase,          \* "mount": effects not yet run; "ran"; "authRejected";
                        \* "unmounted"
    db,                 \* Firestore handle held (db !== null)
    userId,             \* "" for null
    isAuthReady,
    status,
    store,              \* the collection's documents, in timestamp (write) order
    nextId,             \* next document id the store assigns
    listening,          \* a snapshot listener is attached and has not failed
    snapQueue,          \* snapshots the active listener has still to deliver
    logs,               \* cached log, newest first
    startingGallons,    \* capacity
    gallonsUsedOnRoad,
    gallonsLeft,
    gallonsToRefill,
    chemicalMix,
    currentChemical,
    selectedRoad,
    weather,
    temperature,
    windDirection,
    windSpeed,
    calls,              \* handlers suspended at an await, with what they captured
    lastSubmitted       \* form values captured by the last application write issued

vars == <<configPresent, initPhase, db, userId, isAuthReady, status, store, nextId,
          listening, snapQueue, logs, startingGallons, gallonsUsedOnRoad, gallonsLeft,
          gallonsToRefill, chemicalMix, currentChemical, selectedRoad, weather,
          temperature, windDirection, windSpeed, calls, lastSubmitted>>

firebaseVars == <<configPresent, initPhase, db, userId, isAuthReady>>
storeVars    == <<store, nextId>>
subVars      == <<listening, snapQueue>>
tankVars     == <<startingGallons, gallonsLeft>>
weatherVars  == <<weather, temperature, windDirection, windSpeed>>
formVars     == <<gallonsUsedOnRoad, gallonsToRefill, chemicalMix, currentChemical,
                  selectedRoad, weather, temperature, windDirection, windSpeed>>

----------------------------------------------------------------------------
(* Bounds of the model *)

MaxDocs  == 2     \* documents ever written to the collection
MaxCalls == 1     \* handlers suspended at an await at one time
MaxSnaps == 2     \* snapshots queued for the listener
MaxMix   == 1     \* items of the in-progress chemical mix
MaxResetCalls == 2  \* handlers suspended at one time, a reset among them

----------------------------------------------------------------------------
(* Program constants *)

DefaultCapacity    == 600 * 1000        \* useState(600)
DefaultTemperature == 70
DefaultWindSpeed   == 5
DefaultWindDir     == "South West"
Epsilon            == 10                \* 0.01 gallon
FallbackCapacity   == 1 * 1000          \* parseFloat(value) || 1
NaN                == -2147483647       \* parseFloat of a non-numeric text
TANK_REFILL        == <<"TANK REFILL">>
BlankText          == <<>>

\* A status message: its text, and the road or amount it interpolates.
St(text) == [text |-> text, road |-> <<>>, amount |-> 0]

StInitial       == St("Initializing...")
StConfigMissing == St("Error: Firebase Config Missing.")
StInitFailed    == St("Initialization Failed.")
StReady         == St("System Ready.")
StLoadError     == St("Error loading logs.")
StChemInvalid   == St("Enter valid chemical and amount.")
StSysInit       == St("System initializing...")
StTankFull      == St("Tank full or invalid amount.")
StRefillError   == St("Error saving refill log.")
StRefillInvalid == St("Enter positive refill amount.")
StSelectRoad    == St("Select a Road.")
StInvalidUsed   == St("Invalid Gallons Used.")
StNotEnough     == St("Not enough gallons remaining.")
StAddChemicals  == St("Add chemicals first.")
StCheckEnv      == St("Check environmental fields.")
StLogError      == St("Error saving log.")
StReset         == St("History Reset.")
StResetFailed   == St("Reset Failed.")

----------------------------------------------------------------------------
(* Values the user can type or pick *)

RoadInputs      == { <<" ">>, <<"Main St">> }
UsedInputs      == { 10004, 700 * 1000 }
RefillInputs    == { 50 * 1000, 10 }
CapacityInputs  == { -5 * 1000, 600006 }
ChemNameInputs  == { <<"Salt">> }
ChemOzInputs    == { 100 * 1000, NaN }
WeatherInputs   == { <<" ", "Sunny">> }
TempInputs      == { 0 }
WindDirInputs   == { "North" }
WindSpeedInputs == { 0 }

----------------------------------------------------------------------------
(* Pure helpers *)

Min(a, b) == IF a <= b THEN a ELSE b
Max(a, b) == IF a >= b THEN a ELSE b
Abs(a)    == IF a >= 0 THEN a ELSE -a

Reverse(s) == [i \in 1..Len(s) |-> s[Len(s) + 1 - i]]

isNaN(x) == x = NaN

\* JavaScript truthiness of a number: 0 and NaN are falsy.
Falsy(x) == x = 0 \/ isNaN(x)

RECURSIVE TrimStart(_)
TrimStart(s) == IF s # <<>> /\ Head(s) = " " THEN TrimStart(Tail(s)) ELSE s

\* String.prototype.trim
Trim(s) == Reverse(TrimStart(Reverse(TrimStart(s))))

\* Number.prototype.toFixed(2) followed by parseFloat: the nearest multiple
\* of 0.01, halves away from zero.
ToFixed2(x) == IF x >= 0 THEN ((x + 5) \div 10) * 10
                         ELSE -(((-x + 5) \div 10) * 10)

\* calculateOzPerGal: totalOz / tankVolume to 4 decimals, '0' when the volume
\* is not positive.
calculateOzPerGal(totalOz, tankVolume) ==
    IF tankVolume > 0
    THEN (totalOz * 10000 + tankVolume \div 2) \div tankVolume
    ELSE 0

\* Mutant: the items keep the ozPerGal they were added with.
RecalcMixKeeps(mix, capacity) == mix

\* The recalculation effect on [startingGallons].
RecalcMix(mix, capacity) ==
    [i \in 1..Len(mix) |->
        [mix[i] EXCEPT !.ozPerGal = calculateOzPerGal(mix[i].totalOz, capacity)]]

\* weatherConditions: {} of a refill entry; every field reads as undefined,
\* which the code only ever tests for truthiness.
EmptyConditions ==
    [weather |-> <<>>, temperature |-> 0, windDirection |-> "", windSpeed |-> 0]

NoSubmission ==
    [id |-> 0, weather |-> <<>>, temperature |-> 0, windDirection |-> "",
     windSpeed |-> 0, chemicalMix |-> <<>>]

\* The listener effect's guard: if (!db || !userId) return.
CanSubscribe == db /\ userId # ""

----------------------------------------------------------------------------
(* Initial state: the useState initial values, before any effect has run.   *)

Init ==
    /\ configPresent \in BOOLEAN
    /\ initPhase = "mount"
    /\ db = FALSE
    /\ userId = ""
    /\ isAuthReady = FALSE
    /\ status = StInitial
    /\ store = <<>>
    /\ nextId = 1
    /\ listening = FALSE
    /\ snapQueue = <<>>
    /\ logs = <<>>
    /\ startingGallons = DefaultCapacity
    /\ gallonsUsedOnRoad = 0
    /\ gallonsLeft = DefaultCapacity
    /\ gallonsToRefill = 0
    /\ chemicalMix = <<>>
    /\ currentChemical = [name |-> <<>>, totalOz |-> 0]
    /\ selectedRoad = BlankText
    /\ weather = BlankText
    /\ temperature = DefaultTemperature
    /\ windDirection = DefaultWindDir
    /\ windSpeed = DefaultWindSpeed
    /\ calls = <<>>
    /\ lastSubmitted = NoSubmission

----------------------------------------------------------------------------
(* Firebase initialization effect *)

\* Mutant: the effect does not look at the configuration.
FirebaseInitIgnoresConfig(ok) ==
    /\ initPhase = "mount"
    /\ initPhase' = "ran"
    /\ IF ok
       THEN db' = TRUE /\ UNCHANGED status
       ELSE status' = StInitFailed /\ UNCHANGED db
    /\ UNCHANGED <<configPresent, userId, isAuthReady, store, nextId, listening,
                   snapQueue, logs, startingGallons, gallonsUsedOnRoad, gallonsLeft,
                   gallonsToRefill, chemicalMix, currentChemical, selectedRoad,
                   weather, temperature, windDirection, windSpeed, calls,
                   lastSubmitted>>

\* The body of the effect: config check, initializeApp/getFirestore/getAuth
\* (which may throw into the catch), setDb.
FirebaseInit(ok) ==
    /\ initPhase = "mount"
    /\ initPhase' = "ran"
    /\ IF ~configPresent
       THEN /\ status' = StConfigMissing
            /\ UNCHANGED db
       ELSE IF ok
            THEN db' = TRUE /\ UNCHANGED status
            ELSE status' = StInitFailed /\ UNCHANGED db
    /\ UNCHANGED <<configPresent, userId, isAuthReady, store, nextId, listening,
                   snapQueue, logs, startingGallons, gallonsUsedOnRoad, gallonsLeft,
                   gallonsToRefill, chemicalMix, currentChemical, selectedRoad,
                   weather, temperature, windDirection, windSpeed, calls,
                   lastSubmitted>>

\* The onAuthStateChanged callback with no user: the sign-in is awaited with
\* no try/catch around it.  When it resolves the user id is set and the
\* listener effect (deps db, userId) subscribes; when it rejects the
\* callback's promise rejects and nothing is set.
AuthStateChanged(ok) ==
    /\ initPhase = "ran"
    /\ db
    /\ ~isAuthReady
    /\ IF ok
        THEN /\ userId' = "u1"
             /\ isAuthReady' = TRUE
             /\ status' = StReady
             /\ listening' = TRUE
             /\ snapQueue' = <<store>>
             /\ UNCHANGED initPhase
        ELSE /\ initPhase' = "authRejected"
             /\ UNCHANGED <<userId, isAuthReady, status, listening, snapQueue>>
    /\ UNCHANGED <<configPresent, db, store, nextId, logs, startingGallons,
                   gallonsUsedOnRoad, gallonsLeft, gallonsToRefill, chemicalMix,
                   currentChemical, selectedRoad, weather, temperature,
                   windDirection, windSpeed, calls, lastSubmitted>>

\* A handler can run once the component is mounted and its effects have run,
\* until the component is unmounted.
Mounted == initPhase \notin {"mount", "unmounted"}

----------------------------------------------------------------------------
(* Real-time history listener *)

\* Mutant: the cleanup does not unsubscribe; what the previous listener had
\* still to deliver stays pending beside the new listener's first snapshot.
QueueOnCapacityKeepsPending(oldCapacity, newCapacity, queue, docs) ==
    IF newCapacity # oldCapacity /\ CanSubscribe THEN Append(queue, docs) ELSE queue

\* The listener effect re-runs when startingGallons changes (deps db, userId,
\* startingGallons): the old listener is unsubscribed, what it had still to
\* deliver is dropped, and the new listener first receives the current
\* collection.
QueueOnCapacity(oldCapacity, newCapacity, queue, docs) ==
    IF newCapacity # oldCapacity /\ CanSubscribe THEN <<docs>> ELSE queue

ListeningOnCapacity(oldCapacity, newCapacity) ==
    IF newCapacity # oldCapacity /\ CanSubscribe THEN TRUE ELSE listening

\* The component is unmounted: the effect's cleanup, () => unsubscribe(),
\* releases the listener, which delivers nothing more.  Handlers suspended at
\* an await resume against the unmounted component, where the state setters
\* do nothing.
Unmount ==
    /\ Mounted
    /\ initPhase' = "unmounted"
    /\ listening' = FALSE
    /\ snapQueue' = <<>>
    /\ calls' = <<>>
    /\ UNCHANGED <<configPresent, db, userId, isAuthReady, status, storeVars, logs,
                   tankVars, formVars, lastSubmitted>>

\* What a change of the collection sends to the listener.
Notify(queue, docs) == IF listening THEN Append(queue, docs) ELSE queue

IsApplicationWithWeather(log) ==
    log.roadName # TANK_REFILL /\ log.weatherConditions.weather # <<>>

\* logs.find(...) of lastAppliedConditions: index of the first (newest)
\* application entry that has a weather text, 0 when there is none.
RECURSIVE FindLastApp(_, _)
FindLastApp(ls, i) ==
    IF i > Len(ls) THEN 0
    ELSE IF IsApplicationWithWeather(ls[i]) THEN i
    ELSE FindLastApp(ls, i + 1)

\* Mutant: an empty log puts the level at the default capacity.
SnapshotLevelDefault(fetchedLogs, capacity) ==
    IF fetchedLogs # <<>> THEN fetchedLogs[Len(fetchedLogs)].gallonsLeft
                          ELSE DefaultCapacity

\* The onSnapshot callback's level: the newest entry's gallonsLeft, which is
\* a number in every entry the handlers write; with no entry, the capacity
\* the listener was subscribed under.
SnapshotLevel(fetchedLogs, capacity) ==
    IF fetchedLogs # <<>> THEN fetchedLogs[Len(fetchedLogs)].gallonsLeft
                          ELSE capacity

\* Mutant: the capacity is not taken from the newest entry.
SnapshotCapacityKeeps(fetchedLogs, capacity) == capacity

\* The onSnapshot callback's capacity: the newest entry's initialTankVolume;
\* with no entry the capacity is left alone.
SnapshotCapacity(fetchedLogs, capacity) ==
    IF fetchedLogs # <<>> THEN fetchedLogs[Len(fetchedLogs)].initialTankVolume
                          ELSE capacity

\* The onSnapshot callback, with the renders it causes: setLogs, the tank
\* state from the newest entry, the lastAppliedConditions memo on [logs]
\* (which sets the weather fields), and the two effects on [startingGallons]
\* (re-subscription, mix recalculation).
DeliverSnapshot ==
    /\ listening
    /\ snapQueue # <<>>
    /\ LET fetchedLogs == Head(snapQueue)
           newLogs     == Reverse(fetchedLogs)
           newCapacity == SnapshotCapacity(fetchedLogs, startingGallons)
           k           == FindLastApp(newLogs, 1)
       IN  /\ logs' = newLogs
           /\ gallonsLeft' = SnapshotLevel(fetchedLogs, startingGallons)
           /\ startingGallons' = newCapacity
           /\ snapQueue' = QueueOnCapacity(startingGallons, newCapacity,
                                           Tail(snapQueue), store)
           /\ chemicalMix' = IF newCapacity # startingGallons
                             THEN RecalcMix(chemicalMix, newCapacity)
                             ELSE chemicalMix
           /\ IF k > 0
              THEN LET c == newLogs[k].weatherConditions
                   IN  /\ weather' = c.weather
                       /\ temperature' = IF Falsy(c.temperature)
                                         THEN DefaultTemperature ELSE c.temperature
                       /\ windDirection' = IF c.windDirection = ""
                                           THEN DefaultWindDir ELSE c.windDirection
                       /\ windSpeed' = IF Falsy(c.windSpeed)
                                       THEN DefaultWindSpeed ELSE c.windSpeed
              ELSE UNCHANGED weatherVars
    /\ UNCHANGED <<firebaseVars, status, storeVars, listening, gallonsUsedOnRoad,
                   gallonsToRefill, currentChemical, selectedRoad, calls,
                   lastSubmitted>>

\* The onSnapshot error callback; the failed listener delivers nothing more.
SnapshotError ==
    /\ listening
    /\ status' = StLoadError
    /\ listening' = FALSE
    /\ snapQueue' = <<>>
    /\ UNCHANGED <<firebaseVars, storeVars, logs, tankVars, formVars, calls,
                   lastSubmitted>>

----------------------------------------------------------------------------
(* Form inputs *)

\* Adjust Capacity onChange: val = parseFloat(value) || 1, setStartingGallons(val),
\* setGallonsLeft(prev => Math.min(val, prev)); then the effects on
\* [startingGallons].
AdjustCapacity(v) ==
    /\ Mounted
    /\ LET val == IF Falsy(v) THEN FallbackCapacity ELSE v
       IN  /\ startingGallons' = val
           /\ gallonsLeft' = Min(val, gallonsLeft)
           /\ snapQueue' = QueueOnCapacity(startingGallons, val, snapQueue, store)
           /\ listening' = ListeningOnCapacity(startingGallons, val)
           /\ chemicalMix' = IF val # startingGallons
                             THEN RecalcMix(chemicalMix, val) ELSE chemicalMix
    /\ UNCHANGED <<firebaseVars, status, storeVars, logs, gallonsUsedOnRoad,
                   gallonsToRefill, currentChemical, selectedRoad, weatherVars,
                   calls, lastSubmitted>>

\* Add Gallons onChange: parseFloat(value) || 0.
SetGallonsToRefill(v) ==
    /\ Mounted
    /\ gallonsToRefill' = IF Falsy(v) THEN 0 ELSE v
    /\ UNCHANGED <<firebaseVars, status, storeVars, subVars, logs, tankVars,
                   gallonsUsedOnRoad, chemicalMix, currentChemical, selectedRoad,
                   weatherVars, calls, lastSubmitted>>

\* Gallons Used onChange: parseFloat(value) || 0.
SetGallonsUsedOnRoad(v) ==
    /\ Mounted
    /\ gallonsUsedOnRoad' = IF Falsy(v) THEN 0 ELSE v
    /\ UNCHANGED <<firebaseVars, status, storeVars, subVars, logs, tankVars,
                   gallonsToRefill, chemicalMix, currentChemical, selectedRoad,
                   weatherVars, calls, lastSubmitted>>

\* Road Name onChange and handleRoadSelect: both set the selected road to the
\* given text.
SetSelectedRoad(r) ==
    /\ Mounted
    /\ selectedRoad' = r
    /\ UNCHANGED <<firebaseVars, status, storeVars, subVars, logs, tankVars,
                   gallonsUsedOnRoad, gallonsToRefill, chemicalMix, currentChemical,
                   weatherVars, calls, lastSubmitted>>

\* Chemical search onChange and handleChemicalSelect.
SetChemicalName(n) ==
    /\ Mounted
    /\ currentChemical' = [currentChemical EXCEPT !.name = n]
    /\ UNCHANGED <<firebaseVars, status, storeVars, subVars, logs, tankVars,
                   gallonsUsedOnRoad, gallonsToRefill, chemicalMix, selectedRoad,
                   weatherVars, calls, lastSubmitted>>

\* Total oz onChange: the text is kept; v is what parseFloat makes of it.
SetChemicalTotalOz(v) ==
    /\ Mounted
    /\ currentChemical' = [currentChemical EXCEPT !.totalOz = v]
    /\ UNCHANGED <<firebaseVars, status, storeVars, subVars, logs, tankVars,
                   gallonsUsedOnRoad, gallonsToRefill, chemicalMix, selectedRoad,
                   weatherVars, calls, lastSubmitted>>

SetWeather(w) ==
    /\ Mounted
    /\ weather' = w
    /\ UNCHANGED <<firebaseVars, status, storeVars, subVars, logs, tankVars,
                   gallonsUsedOnRoad, gallonsToRefill, chemicalMix, currentChemical,
                   selectedRoad, temperature, windDirection, windSpeed, calls,
                   lastSubmitted>>

\* setTemperature(parseFloat(value)): NaN is kept.
SetTemperature(t) ==
    /\ Mounted
    /\ temperature' = t
    /\ UNCHANGED <<firebaseVars, status, storeVars, subVars, logs, tankVars,
                   gallonsUsedOnRoad, gallonsToRefill, chemicalMix, currentChemical,
                   selectedRoad, weather, windDirection, windSpeed, calls,
                   lastSubmitted>>

SetWindDirection(d) ==
    /\ Mounted
    /\ windDirection' = d
    /\ UNCHANGED <<firebaseVars, status, storeVars, subVars, logs, tankVars,
                   gallonsUsedOnRoad, gallonsToRefill, chemicalMix, currentChemical,
                   selectedRoad, weather, temperature, windSpeed, calls,
                   lastSubmitted>>

\* setWindSpeed(parseFloat(value)): NaN is kept.
SetWindSpeed(s) ==
    /\ Mounted
    /\ windSpeed' = s
    /\ UNCHANGED <<firebaseVars, status, storeVars, subVars, logs, tankVars,
                   gallonsUsedOnRoad, gallonsToRefill, chemicalMix, currentChemical,
                   selectedRoad, weather, temperature, windDirection, calls,
                   lastSubmitted>>

----------------------------------------------------------------------------
(* Chemical mix *)

\* Mutant: only the name is checked.
ChemicalAddRejectedNameOnly == currentChemical.name = <<>>

\* The guard of handleChemicalAdd: TRUE when the add is rejected.
ChemicalAddRejected ==
    \/ currentChemical.name = <<>>
    \/ isNaN(currentChemical.totalOz)
    \/ currentChemical.totalOz <= 0

handleChemicalAdd ==
    /\ Mounted
    /\ IF ChemicalAddRejected
       THEN /\ status' = StChemInvalid
            /\ UNCHANGED <<chemicalMix, currentChemical>>
       ELSE /\ Len(chemicalMix) < MaxMix
            /\ chemicalMix' = Append(chemicalMix,
                   [name     |-> currentChemical.name,
                    totalOz  |-> currentChemical.totalOz,
                    ozPerGal |-> calculateOzPerGal(currentChemical.totalOz,
                                                   startingGallons)])
            /\ currentChemical' = [name |-> <<>>, totalOz |-> 0]
            /\ UNCHANGED status
    /\ UNCHANGED <<firebaseVars, storeVars, subVars, logs, tankVars,
                   gallonsUsedOnRoad, gallonsToRefill, selectedRoad, weatherVars,
                   calls, lastSubmitted>>

\* The remove button of the item at position index (1-based here).
handleChemicalRemove(index) ==
    /\ Mounted
    /\ index \in 1..Len(chemicalMix)
    /\ chemicalMix' = [i \in 1..(Len(chemicalMix) - 1) |->
                          IF i < index THEN chemicalMix[i] ELSE chemicalMix[i + 1]]
    /\ UNCHANGED <<firebaseVars, status, storeVars, subVars, logs, tankVars,
                   gallonsUsedOnRoad, gallonsToRefill, currentChemical, selectedRoad,
                   weatherVars, calls, lastSubmitted>>

----------------------------------------------------------------------------
(* Suspended handlers *)

Call(kind, ok, road, amount, todo) ==
    [kind |-> kind, ok |-> ok, road |-> road, amount |-> amount,
     listed |-> todo, todo |-> todo, failed |-> ~ok, reported |-> FALSE]

RemoveAt(s, i) == [j \in 1..(Len(s) - 1) |-> IF j < i THEN s[j] ELSE s[j + 1]]

\* Mutant: the write replaces the newest document instead of adding one.
AddDocReplacesNewest(docs, doc) ==
    IF docs = <<>> THEN <<doc>> ELSE [docs EXCEPT ![Len(docs)] = doc]

\* addDoc: the collection with the new document, which the server timestamp
\* orders after every document already there.
AddDoc(docs, doc) == Append(docs, doc)

----------------------------------------------------------------------------
(* Refill *)

\* Mutant: the new level is not capped at the capacity.
RefillNewLevelUncapped(capacity, level, gallonsAdded) == level + gallonsAdded

\* performRefill: newGallonsLeft = Math.min(startingGallons, gallonsLeft + gallonsAdded)
RefillNewLevel(capacity, level, gallonsAdded) == Min(capacity, level + gallonsAdded)

\* performRefill: actualAdded = newGallonsLeft - gallonsLeft
RefillActualAdded(capacity, level, gallonsAdded) ==
    RefillNewLevel(capacity, level, gallonsAdded) - level

\* Mutant: an amount of exactly 0.01 gallon is accepted.
RefillNegligibleStrict(actualAdded) == actualAdded < Epsilon

\* performRefill: if (actualAdded <= 0.01) reject
RefillNegligible(actualAdded) == actualAdded <= Epsilon

\* The reason handleRefill / performRefill reject with, in the order of the
\* checks; St("") when the refill is accepted.
RefillRejection ==
    IF isNaN(gallonsToRefill) \/ gallonsToRefill <= 0 THEN StRefillInvalid
    ELSE IF ~isAuthReady \/ ~db \/ userId = "" THEN StSysInit
    ELSE IF RefillNegligible(RefillActualAdded(startingGallons, gallonsLeft,
                                               gallonsToRefill))
         THEN StTankFull
    ELSE St("")

\* The document performRefill passes to addDoc.
RefillDoc ==
    [id                |-> nextId,
     roadName          |-> TANK_REFILL,
     gallonsUsed       |-> -RefillActualAdded(startingGallons, gallonsLeft,
                                              gallonsToRefill),
     gallonsLeft       |-> ToFixed2(RefillNewLevel(startingGallons, gallonsLeft,
                                                   gallonsToRefill)),
     initialTankVolume |-> startingGallons,
     chemicalMix       |-> <<>>,
     weatherConditions |-> EmptyConditions]

\* handleRefill and performRefill up to the await of addDoc.  The write
\* either reaches the collection or fails; the handler resumes in
\* RefillReturn.
handleRefill(ok) ==
    /\ Mounted
    /\ IF RefillRejection # St("")
       THEN /\ status' = RefillRejection
            /\ UNCHANGED <<storeVars, snapQueue, calls>>
       ELSE /\ Len(calls) < MaxCalls
            /\  /\ calls' = Append(calls,
                       Call("refill", ok, <<>>,
                            RefillActualAdded(startingGallons, gallonsLeft,
                                              gallonsToRefill), {}))
                /\ IF ok
                   THEN /\ nextId <= MaxDocs
                        /\ Len(snapQueue) < MaxSnaps
                        /\ store' = AddDoc(store, RefillDoc)
                        /\ nextId' = nextId + 1
                        /\ snapQueue' = Notify(snapQueue, AddDoc(store, RefillDoc))
                   ELSE UNCHANGED <<storeVars, snapQueue>>
            /\ UNCHANGED status
    /\ UNCHANGED <<firebaseVars, listening, logs, tankVars, formVars, lastSubmitted>>

\* performRefill after the await: the success path or the catch.
RefillReturn(i) ==
    /\ i \in 1..Len(calls)
    /\ calls[i].kind = "refill"
    /\ calls' = RemoveAt(calls, i)
    /\ IF calls[i].ok
       THEN /\ status' = [text |-> "Refilled", road |-> <<>>,
                          amount |-> ToFixed2(calls[i].amount)]
            /\ gallonsToRefill' = 0
       ELSE /\ status' = StRefillError
            /\ UNCHANGED gallonsToRefill
    /\ UNCHANGED <<firebaseVars, storeVars, subVars, logs, tankVars,
                   gallonsUsedOnRoad, chemicalMix, currentChemical, selectedRoad,
                   weatherVars, lastSubmitted>>

----------------------------------------------------------------------------
(* Application *)

\* Mutant: the check of gallons-used against the level is missing.
ApplicationRejectionNoShortage ==
    IF Trim(selectedRoad) = <<>> THEN StSelectRoad
    ELSE IF isNaN(gallonsUsedOnRoad) \/ gallonsUsedOnRoad <= 0 THEN StInvalidUsed
    ELSE IF Len(chemicalMix) = 0 THEN StAddChemicals
    ELSE IF \/ Trim(weather) = <<>>
            \/ Falsy(temperature)
            \/ windDirection = ""
            \/ Falsy(windSpeed)
         THEN StCheckEnv
    ELSE IF ~isAuthReady \/ ~db \/ userId = "" THEN StInitial
    ELSE St("")

\* Mutant: the mix is checked before gallons-used.
ApplicationRejectionMixFirst ==
    IF Trim(selectedRoad) = <<>> THEN StSelectRoad
    ELSE IF Len(chemicalMix) = 0 THEN StAddChemicals
    ELSE IF isNaN(gallonsUsedOnRoad) \/ gallonsUsedOnRoad <= 0 THEN StInvalidUsed
    ELSE IF gallonsUsedOnRoad > gallonsLeft THEN StNotEnough
    ELSE IF \/ Trim(weather) = <<>>
            \/ Falsy(temperature)
            \/ windDirection = ""
            \/ Falsy(windSpeed)
         THEN StCheckEnv
    ELSE IF ~isAuthReady \/ ~db \/ userId = "" THEN StInitial
    ELSE St("")

\* The reason logApplication rejects with, in the order of its checks;
\* St("") when all of them pass.
ApplicationRejection ==
    IF Trim(selectedRoad) = <<>> THEN StSelectRoad
    ELSE IF isNaN(gallonsUsedOnRoad) \/ gallonsUsedOnRoad <= 0 THEN StInvalidUsed
    ELSE IF gallonsUsedOnRoad > gallonsLeft THEN StNotEnough
    ELSE IF Len(chemicalMix) = 0 THEN StAddChemicals
    ELSE IF \/ Trim(weather) = <<>>
            \/ Falsy(temperature)
            \/ windDirection = ""
            \/ Falsy(windSpeed)
         THEN StCheckEnv
    ELSE IF ~isAuthReady \/ ~db \/ userId = "" THEN StInitial
    ELSE St("")

\* Mutant: the amount used is added to the level.
ApplicationNewLevelAdds(level, gallonsUsed) == level + gallonsUsed

\* logApplication: newGallonsLeft = gallonsLeft - gallonsUsed
ApplicationNewLevel(level, gallonsUsed) == level - gallonsUsed

\* The document logApplication passes to addDoc.
ApplicationDoc ==
    [id                |-> nextId,
     roadName          |-> selectedRoad,
     gallonsUsed       |-> ToFixed2(gallonsUsedOnRoad),
     gallonsLeft       |-> ToFixed2(ApplicationNewLevel(gallonsLeft,
                                                        gallonsUsedOnRoad)),
     initialTankVolume |-> startingGallons,
     chemicalMix       |-> chemicalMix,
     weatherConditions |-> [weather       |-> Trim(weather),
                            temperature   |-> temperature,
                            windDirection |-> windDirection,
                            windSpeed     |-> windSpeed]]

\* logApplication up to the await of addDoc (the Log button is disabled while
\* selectedRoad is empty), with at most maxCalls handlers suspended.  The
\* handler resumes in ApplicationReturn.
logApplicationWithin(maxCalls, ok) ==
    /\ Mounted
    /\ selectedRoad # BlankText
    /\ IF ApplicationRejection # St("")
       THEN /\ status' = ApplicationRejection
            /\ UNCHANGED <<storeVars, snapQueue, calls, lastSubmitted>>
       ELSE /\ Len(calls) < maxCalls
            /\  /\ calls' = Append(calls, Call("app", ok, selectedRoad, 0, {}))
                /\ IF ok
                   THEN /\ nextId <= MaxDocs
                        /\ Len(snapQueue) < MaxSnaps
                        /\ store' = AddDoc(store, ApplicationDoc)
                        /\ nextId' = nextId + 1
                        /\ snapQueue' = Notify(snapQueue, AddDoc(store, ApplicationDoc))
                        /\ lastSubmitted' =
                               [id            |-> nextId,
                                weather       |-> weather,
                                temperature   |-> temperature,
                                windDirection |-> windDirection,
                                windSpeed     |-> windSpeed,
                                chemicalMix   |-> chemicalMix]
                   ELSE UNCHANGED <<storeVars, snapQueue, lastSubmitted>>
            /\ UNCHANGED status
    /\ UNCHANGED <<firebaseVars, listening, logs, tankVars, formVars>>

logApplication(ok) == logApplicationWithin(MaxCalls, ok)

\* Mutant: the success path also clears the in-progress mix.
ApplicationReturnClearsMix(i) ==
    /\ i \in 1..Len(calls)
    /\ calls[i].kind = "app"
    /\ calls' = [j \in 1..(Len(calls) - 1) |-> IF j < i THEN calls[j] ELSE calls[j + 1]]
    /\ IF calls[i].ok
       THEN /\ gallonsUsedOnRoad' = 0
            /\ selectedRoad' = BlankText
            /\ chemicalMix' = <<>>
            /\ status' = [text |-> "Logged", road |-> calls[i].road, amount |-> 0]
       ELSE /\ status' = StLogError
            /\ UNCHANGED <<gallonsUsedOnRoad, selectedRoad, chemicalMix>>
    /\ UNCHANGED <<firebaseVars, storeVars, subVars, logs, tankVars,
                   gallonsToRefill, currentChemical, weatherVars, lastSubmitted>>

\* logApplication after the await: the success path or the catch.
ApplicationReturn(i) ==
    /\ i \in 1..Len(calls)
    /\ calls[i].kind = "app"
    /\ calls' = RemoveAt(calls, i)
    /\ IF calls[i].ok
       THEN /\ gallonsUsedOnRoad' = 0
            /\ selectedRoad' = BlankText
            /\ status' = [text |-> "Logged", road |-> calls[i].road, amount |-> 0]
       ELSE /\ status' = StLogError
            /\ UNCHANGED <<gallonsUsedOnRoad, selectedRoad>>
    /\ UNCHANGED <<firebaseVars, storeVars, subVars, logs, tankVars,
                   gallonsToRefill, chemicalMix, currentChemical, weatherVars,
                   lastSubmitted>>

----------------------------------------------------------------------------
(* Reset *)

DocIds(docs) == {docs[i].id : i \in 1..Len(docs)}

RECURSIVE WithoutDoc(_, _)
WithoutDoc(docs, id) ==
    IF docs = <<>> THEN <<>>
    ELSE IF Head(docs).id = id THEN Tail(docs)
    ELSE <<Head(docs)>> \o WithoutDoc(Tail(docs), id)

\* confirmResetHistory up to Promise.all: with no db or no user it returns at
\* once; otherwise getDocs lists the documents (or throws) and one deleteDoc
\* is issued per listed document.
confirmResetHistory(ok) ==
    /\ Mounted
    /\ db /\ userId # ""
    /\ Len(calls) < MaxCalls
    /\ calls' = Append(calls,
                    Call("reset", ok, <<>>, 0, IF ok THEN DocIds(store) ELSE {}))
    /\ UNCHANGED <<firebaseVars, status, storeVars, subVars, logs, tankVars,
                   formVars, lastSubmitted>>

\* One deleteDoc of a reset completes: the document is removed, or the delete
\* fails and Promise.all rejects.  After the catch has run the remaining
\* deletes still complete.
ResetDelete(i, id, ok) ==
    /\ i \in 1..Len(calls)
    /\ calls[i].kind = "reset"
    /\ id \in calls[i].todo
    /\  LET rest == calls[i].todo \ {id}
            c    == [calls[i] EXCEPT !.todo = rest,
                                     !.failed = calls[i].failed \/ ~ok]
        IN  /\ calls' = IF rest = {} /\ c.reported
                        THEN RemoveAt(calls, i)
                        ELSE [calls EXCEPT ![i] = c]
            /\ IF ok
               THEN /\ Len(snapQueue) < MaxSnaps
                    /\ store' = WithoutDoc(store, id)
                    /\ snapQueue' = Notify(snapQueue, WithoutDoc(store, id))
               ELSE UNCHANGED <<store, snapQueue>>
    /\ UNCHANGED <<firebaseVars, status, nextId, listening, logs, tankVars,
                   formVars, lastSubmitted>>

\* Mutant: the deletes are not awaited before the local state is reset.
ResetReturnEarly(i) ==
    /\ i \in 1..Len(calls)
    /\ calls[i].kind = "reset"
    /\ ~calls[i].failed
    /\ calls' = RemoveAt(calls, i)
    /\ startingGallons' = DefaultCapacity
    /\ gallonsLeft' = DefaultCapacity
    /\ gallonsUsedOnRoad' = 0
    /\ chemicalMix' = <<>>
    /\ currentChemical' = [name |-> <<>>, totalOz |-> 0]
    /\ selectedRoad' = BlankText
    /\ gallonsToRefill' = 0
    /\ weather' = BlankText
    /\ temperature' = DefaultTemperature
    /\ windDirection' = DefaultWindDir
    /\ windSpeed' = DefaultWindSpeed
    /\ status' = StReset
    /\ snapQueue' = QueueOnCapacity(startingGallons, DefaultCapacity, snapQueue, store)
    /\ listening' = ListeningOnCapacity(startingGallons, DefaultCapacity)
    /\ UNCHANGED <<firebaseVars, storeVars, logs, lastSubmitted>>

\* confirmResetHistory after Promise.all resolved: the local state returns to
\* its defaults; then the effects on [startingGallons].
ResetReturn(i) ==
    /\ i \in 1..Len(calls)
    /\ calls[i].kind = "reset"
    /\ calls[i].todo = {}
    /\ ~calls[i].failed
    /\ calls' = RemoveAt(calls, i)
    /\ startingGallons' = DefaultCapacity
    /\ gallonsLeft' = DefaultCapacity
    /\ gallonsUsedOnRoad' = 0
    /\ chemicalMix' = <<>>
    /\ currentChemical' = [name |-> <<>>, totalOz |-> 0]
    /\ selectedRoad' = BlankText
    /\ gallonsToRefill' = 0
    /\ weather' = BlankText
    /\ temperature' = DefaultTemperature
    /\ windDirection' = DefaultWindDir
    /\ windSpeed' = DefaultWindSpeed
    /\ status' = StReset
    /\ snapQueue' = QueueOnCapacity(startingGallons, DefaultCapacity, snapQueue, store)
    /\ listening' = ListeningOnCapacity(startingGallons, DefaultCapacity)
    /\ UNCHANGED <<firebaseVars, storeVars, logs, lastSubmitted>>

\* The catch of confirmResetHistory: getDocs threw or a delete failed.
ResetCatch(i) ==
    /\ i \in 1..Len(calls)
    /\ calls[i].kind = "reset"
    /\ calls[i].failed
    /\ ~calls[i].reported
    /\ status' = StResetFailed
    /\ calls' = IF calls[i].todo = {}
                THEN RemoveAt(calls, i)
                ELSE [calls EXCEPT ![i].reported = TRUE]
    /\ UNCHANGED <<firebaseVars, storeVars, subVars, logs, tankVars, formVars,
                   lastSubmitted>>

----------------------------------------------------------------------------

(* Specifications.  The handlers are the same in each; they differ in what  *)
(* the user types and in which backend calls may fail, so that each keeps   *)
(* the part of the state its properties are about small enough to explore.  *)

\* Filling the form with one valid application.
ValidForm ==
    \/ SetSelectedRoad(<<"Main St">>)
    \/ SetChemicalName(<<"Salt">>)
    \/ SetChemicalTotalOz(100 * 1000)
    \/ SetWeather(<<" ", "Sunny">>)
    \/ handleChemicalAdd

\* Tank arithmetic: capacity adjustments, applications and refills, every
\* backend call succeeding.
NextTank ==
    \/ FirebaseInit(TRUE)
    \/ AuthStateChanged(TRUE)
    \/ DeliverSnapshot
    \/ \E i \in 1..MaxCalls : RefillReturn(i)
    \/ \E i \in 1..MaxCalls : ApplicationReturn(i)
    \/ ValidForm
    \/ \E v \in CapacityInputs : AdjustCapacity(v)
    \/ \E v \in RefillInputs : SetGallonsToRefill(v)
    \/ SetGallonsUsedOnRoad(10004)
    \/ handleRefill(TRUE)
    \/ logApplication(TRUE)

SpecTank == Init /\ [][NextTank]_vars

\* Form validation: every field of an application takes valid and invalid
\* values; the capacity and the refill amount are left alone, so every refill
\* is rejected.
NextForm ==
    \/ \E ok \in BOOLEAN : FirebaseInit(ok)
    \/ \E ok \in BOOLEAN : AuthStateChanged(ok)
    \/ DeliverSnapshot
    \/ \E i \in 1..MaxCalls : ApplicationReturn(i)
    \/ \E r \in RoadInputs : SetSelectedRoad(r)
    \/ \E v \in UsedInputs : SetGallonsUsedOnRoad(v)
    \/ \E n \in ChemNameInputs : SetChemicalName(n)
    \/ \E v \in ChemOzInputs : SetChemicalTotalOz(v)
    \/ \E w \in WeatherInputs : SetWeather(w)
    \/ \E t \in TempInputs : SetTemperature(t)
    \/ \E d \in WindDirInputs : SetWindDirection(d)
    \/ \E s \in WindSpeedInputs : SetWindSpeed(s)
    \/ handleChemicalAdd
    \/ \E i \in 1..MaxMix : handleChemicalRemove(i)
    \/ handleRefill(TRUE)
    \/ logApplication(TRUE)

SpecForm == Init /\ [][NextForm]_vars

\* Backend failures: writes, the listing and the deletes of a reset may fail,
\* and the listener may report an error.
NextBackend ==
    \/ FirebaseInit(TRUE)
    \/ AuthStateChanged(TRUE)
    \/ DeliverSnapshot
    \/ SnapshotError
    \/ \E i \in 1..MaxCalls : RefillReturn(i)
    \/ \E i \in 1..MaxCalls : ApplicationReturn(i)
    \/ \E i \in 1..MaxCalls : ResetReturn(i)
    \/ \E i \in 1..MaxCalls : ResetCatch(i)
    \/ ValidForm
    \/ SetGallonsUsedOnRoad(10004)
    \/ SetGallonsToRefill(50 * 1000)
    \/ \E ok \in BOOLEAN : handleRefill(ok)
    \/ \E ok \in BOOLEAN : logApplication(ok)
    \/ \E ok \in BOOLEAN : confirmResetHistory(ok)
    \/ \E i \in 1..MaxCalls : \E id \in 1..MaxDocs : \E ok \in BOOLEAN :
           ResetDelete(i, id, ok)

SpecBackend == Init /\ [][NextBackend]_vars

\* Road names: a road of the list, and the sentinel text typed freely into
\* the Road Name field.
SentinelRoadInputs == { <<"Main St">>, TANK_REFILL }

\* The sentinel: applications under either road name, and refills.
NextSentinel ==
    \/ FirebaseInit(TRUE)
    \/ AuthStateChanged(TRUE)
    \/ DeliverSnapshot
    \/ \E i \in 1..MaxCalls : RefillReturn(i)
    \/ \E i \in 1..MaxCalls : ApplicationReturn(i)
    \/ \E r \in SentinelRoadInputs : SetSelectedRoad(r)
    \/ SetChemicalName(<<"Salt">>)
    \/ SetChemicalTotalOz(100 * 1000)
    \/ SetWeather(<<" ", "Sunny">>)
    \/ handleChemicalAdd
    \/ SetGallonsUsedOnRoad(10004)
    \/ SetGallonsToRefill(50 * 1000)
    \/ handleRefill(TRUE)
    \/ logApplication(TRUE)

SpecSentinel == Init /\ [][NextSentinel]_vars

\* Capacities typed while a mix is in progress.
MixCapacityInputs == { 500 * 1000, 250 * 1000, -5 * 1000 }

\* The in-progress mix: items are added, removed and recalculated on every
\* capacity change (adjustment, snapshot delivery, reset) while applications
\* are logged and the history is reset.
NextMix ==
    \/ FirebaseInit(TRUE)
    \/ AuthStateChanged(TRUE)
    \/ DeliverSnapshot
    \/ \E i \in 1..MaxCalls : ApplicationReturn(i)
    \/ \E i \in 1..MaxCalls : ResetReturn(i)
    \/ ValidForm
    \/ \E i \in 1..MaxMix : handleChemicalRemove(i)
    \/ \E v \in MixCapacityInputs : AdjustCapacity(v)
    \/ SetGallonsUsedOnRoad(10004)
    \/ logApplication(TRUE)
    \/ confirmResetHistory(TRUE)
    \/ \E i \in 1..MaxCalls : \E id \in 1..MaxDocs : ResetDelete(i, id, TRUE)

SpecMix == Init /\ [][NextMix]_vars

\* Reset and applications side by side: the Log button stays enabled while
\* confirmResetHistory waits for its deletes, every backend call succeeding.
NextReset ==
    \/ FirebaseInit(TRUE)
    \/ AuthStateChanged(TRUE)
    \/ DeliverSnapshot
    \/ \E i \in 1..MaxResetCalls : ApplicationReturn(i)
    \/ \E i \in 1..MaxResetCalls : ResetReturn(i)
    \/ ValidForm
    \/ SetGallonsUsedOnRoad(10004)
    \/ logApplicationWithin(MaxResetCalls, TRUE)
    \/ confirmResetHistory(TRUE)
    \/ \E i \in 1..MaxResetCalls : \E id \in 1..MaxDocs : ResetDelete(i, id, TRUE)

SpecReset == Init /\ [][NextReset]_vars

----------------------------------------------------------------------------
(* Report and history table *)

\* Number.prototype.toFixed(digits) of a product gallonsUsed * ozPerGal (a
\* count of 1/10^7 oz), as a count of the last digit shown; unit is 10^7
\* divided by 10^digits.  Halves away from zero.
ToFixedCount(x, unit) ==
    IF x >= 0 THEN (2 * x + unit) \div (2 * unit)
              ELSE -((2 * (-x) + unit) \div (2 * unit))

IsApplication(log) == log.roadName # TANK_REFILL

\* logs.filter(log => log.roadName !== "TANK REFILL")
applicationLogs(ls) == SelectSeq(ls, IsApplication)

\* Mutant: the report recomputes ozPerGal from the current capacity.
ReportAppliedFromCapacity(log, chem) ==
    ToFixedCount(log.gallonsUsed * calculateOzPerGal(chem.totalOz, startingGallons),
                 100000)

\* generateReportContent: applied = (log.gallonsUsed || 0) * ozPerGal, shown
\* with toFixed(2): hundredths of an ounce.
ReportApplied(log, chem) ==
    ToFixedCount(log.gallonsUsed * chem.ozPerGal, 100000)

\* History table row: (log.gallonsUsed * ozPerGal).toFixed(1): tenths of an
\* ounce.
HistoryApplied(log, chem) ==
    ToFixedCount(log.gallonsUsed * chem.ozPerGal, 1000000)

\* The applied ounces of the report, per application entry (newest first)
\* and chemical.
ReportAppliedOz ==
    LET apps == applicationLogs(logs)
    IN  [i \in 1..Len(apps) |->
            [j \in 1..Len(apps[i].chemicalMix) |->
                ReportApplied(apps[i], apps[i].chemicalMix[j])]]

\* The applied ounces of the history table, per row and chemical.
HistoryAppliedOz ==
    LET apps == applicationLogs(logs)
    IN  [i \in 1..Len(apps) |->
            [j \in 1..Len(apps[i].chemicalMix) |->
                HistoryApplied(apps[i], apps[i].chemicalMix[j])]]

\* Capacities typed before and after entries are logged.
ReportCapacityInputs == { 200 * 1000, 250 * 1000 }

\* Report and history: applications of 10 gal with 100 oz in the mix (0.5
\* oz/gal at capacity 200), the mix and the capacity changing before and
\* after.
NextReport ==
    \/ FirebaseInit(TRUE)
    \/ AuthStateChanged(TRUE)
    \/ DeliverSnapshot
    \/ \E i \in 1..MaxCalls : ApplicationReturn(i)
    \/ SetSelectedRoad(<<"Main St">>)
    \/ SetChemicalName(<<"Salt">>)
    \/ SetChemicalTotalOz(100 * 1000)
    \/ SetWeather(<<" ", "Sunny">>)
    \/ handleChemicalAdd
    \/ \E i \in 1..MaxMix : handleChemicalRemove(i)
    \/ \E v \in ReportCapacityInputs : AdjustCapacity(v)
    \/ SetGallonsUsedOnRoad(10 * 1000)
    \/ logApplication(TRUE)

SpecReport == Init /\ [][NextReport]_vars

\* The listener's life: subscription at sign-in, re-subscription on every
\* capacity change (adjustment or delivery), failure, and release when the
\* component is unmounted, while applications are written.
NextListener ==
    \/ FirebaseInit(TRUE)
    \/ AuthStateChanged(TRUE)
    \/ DeliverSnapshot
    \/ SnapshotError
    \/ \E i \in 1..MaxCalls : ApplicationReturn(i)
    \/ ValidForm
    \/ \E v \in CapacityInputs : AdjustCapacity(v)
    \/ SetGallonsUsedOnRoad(10004)
    \/ logApplication(TRUE)
    \/ Unmount

SpecListener == Init /\ [][NextListener]_vars

\* Writes while a snapshot is pending: applications of 400 gal and refills of
\* 50 gal, submitted before or after the listener has delivered the entry
\* written before them.
NextPending ==
    \/ FirebaseInit(TRUE)
    \/ AuthStateChanged(TRUE)
    \/ DeliverSnapshot
    \/ \E i \in 1..MaxCalls : RefillReturn(i)
    \/ \E i \in 1..MaxCalls : ApplicationReturn(i)
    \/ ValidForm
    \/ SetGallonsUsedOnRoad(400 * 1000)
    \/ SetGallonsToRefill(50 * 1000)
    \/ handleRefill(TRUE)
    \/ logApplication(TRUE)

SpecPending == Init /\ [][NextPending]_vars

\* Weather edits between deliveries: after an application is logged the user
\* changes the weather text and the wind direction, and refills the tank.
NextWeather ==
    \/ FirebaseInit(TRUE)
    \/ AuthStateChanged(TRUE)
    \/ DeliverSnapshot
    \/ \E i \in 1..MaxCalls : RefillReturn(i)
    \/ \E i \in 1..MaxCalls : ApplicationReturn(i)
    \/ ValidForm
    \/ SetWeather(<<"Rain">>)
    \/ SetWindDirection("North")
    \/ SetGallonsUsedOnRoad(10004)
    \/ SetGallonsToRefill(50 * 1000)
    \/ handleRefill(TRUE)
    \/ logApplication(TRUE)

SpecWeather == Init /\ [][NextWeather]_vars

----------------------------------------------------------------------------
(* Properties *)

Clamp(x, lo, hi) == Max(lo, Min(x, hi))

IsRefill(e) == e.roadName = TANK_REFILL

\* A step that adds a document to the collection, and the document added.
WritesDoc == Len(store') = Len(store) + 1
NewDoc    == store'[Len(store')]

C2_LevelWithinCapacity ==
    logs # <<>> => (0 <= gallonsLeft /\ gallonsLeft <= startingGallons)

\* C3: every entry written has 0 <= gallonsLeft <= initialTankVolume.
C3_EntryWithinCapacity ==
    \A i \in 1..Len(store) :
        /\ 0 <= store[i].gallonsLeft
        /\ store[i].gallonsLeft <= store[i].initialTankVolume

\* Steps of the handlers the properties below are about.
LogApplicationStep == \E ok \in BOOLEAN : logApplication(ok)
HandleRefillStep   == \E ok \in BOOLEAN : handleRefill(ok)

\* A step that issues no write: nothing is added to the collection and no
\* handler is left waiting for addDoc.
NoWrite == UNCHANGED <<store, nextId, snapQueue, calls>>

\* C4 (as stated): an application whose gallonsUsed exceeds gallonsLeft is
\* rejected before any write, and the status reports the shortage.
C4_Original ==
    [][(LogApplicationStep /\ gallonsUsedOnRoad > gallonsLeft) =>
          (NoWrite /\ status' = StNotEnough)]_vars

\* C4 (amended): such an application is rejected before any write; the status
\* reports the shortage when the road is non-blank and gallons-used is
\* positive, and otherwise the reason of the earlier check that fails.
C4_ShortageRejected ==
    [][(LogApplicationStep /\ gallonsUsedOnRoad > gallonsLeft) =>
          /\ NoWrite
          /\ status' = IF Trim(selectedRoad) = <<>> THEN StSelectRoad
                       ELSE IF gallonsUsedOnRoad <= 0 THEN StInvalidUsed
                       ELSE StNotEnough]_vars

\* C4 witness: the shortage has been reported and nothing was written.
C4_Witness ==
    /\ status = StNotEnough
    /\ gallonsUsedOnRoad > gallonsLeft
    /\ store = <<>>
    /\ calls = <<>>

\* The six preconditions of an application, in the documented order, each
\* with its reason.
C5_Passes(k) ==
    CASE k = 1 -> Trim(selectedRoad) # <<>>
      [] k = 2 -> gallonsUsedOnRoad > 0
      [] k = 3 -> gallonsUsedOnRoad <= gallonsLeft
      [] k = 4 -> Len(chemicalMix) > 0
      [] k = 5 -> /\ Trim(weather) # <<>>
                  /\ ~Falsy(temperature)
                  /\ windDirection # ""
                  /\ ~Falsy(windSpeed)
      [] k = 6 -> isAuthReady /\ db /\ userId # ""

C5_Reason(k) ==
    CASE k = 1 -> StSelectRoad
      [] k = 2 -> StInvalidUsed
      [] k = 3 -> StNotEnough
      [] k = 4 -> StAddChemicals
      [] k = 5 -> StCheckEnv
      [] k = 6 -> StInitial

C5_Failing == {k \in 1..6 : ~C5_Passes(k)}

C5_FirstFailing == CHOOSE k \in C5_Failing : \A j \in C5_Failing : k <= j

\* C5: logApplication reports the reason of the first failing precondition in
\* the documented order, the six reasons are pairwise distinct, and a write is
\* issued only when all six pass.
C5_FirstFailingReported ==
    [][LogApplicationStep =>
          /\ \A j, k \in 1..6 : j # k => C5_Reason(j) # C5_Reason(k)
          /\ IF C5_Failing # {}
             THEN NoWrite /\ status' = C5_Reason(C5_FirstFailing)
             ELSE /\ Len(calls') = Len(calls) + 1
                  /\ calls'[Len(calls')].kind = "app"]_vars

\* C5 witness: gallons-used, the mix and the weather are all invalid and the
\* reported reason is that of gallons-used, the first of them.
C5_Witness ==
    /\ status = StInvalidUsed
    /\ Trim(selectedRoad) # <<>>
    /\ gallonsUsedOnRoad = 0
    /\ Len(chemicalMix) = 0
    /\ Falsy(temperature)

\* C6: a rejected application, a rejected refill (amount not positive) and a
\* rejected chemical add (empty name, or totalOz not a positive number)
\* change nothing but the status message.
C6_RejectionKeepsState ==
    [][(\/ LogApplicationStep /\ C5_Failing # {}
        \/ HandleRefillStep /\ gallonsToRefill <= 0
        \/ handleChemicalAdd /\ (\/ currentChemical.name = <<>>
                                 \/ isNaN(currentChemical.totalOz)
                                 \/ currentChemical.totalOz <= 0))
          => UNCHANGED <<firebaseVars, storeVars, subVars, logs, tankVars,
                         formVars, calls, lastSubmitted>>]_vars

\* C6 witness: a chemical add was rejected with a non-empty mix in progress.
C6_Witness ==
    /\ status = StChemInvalid
    /\ Len(chemicalMix) = 1
    /\ currentChemical.name # <<>>
    /\ isNaN(currentChemical.totalOz)

\* Names and amounts of the in-progress mix (ozPerGal is derived from them and
\* the capacity).
MixContents(mix) == [i \in 1..Len(mix) |-> <<mix[i].name, mix[i].totalOz>>]

\* The success path of logApplication resumes after its write.
ApplicationSucceeds == \E i \in 1..Len(calls) : calls[i].ok /\ ApplicationReturn(i)

\* The listener delivers a snapshot whose newest entry is the application
\* last submitted.
DeliversSubmitted ==
    /\ snapQueue # <<>>
    /\ Head(snapQueue) # <<>>
    /\ Head(snapQueue)[Len(Head(snapQueue))].id = lastSubmitted.id
    /\ DeliverSnapshot

\* C7 (as stated): after a successful application write gallons-used is 0 and
\* the road is blank while the mix and the four weather fields are as at
\* submission, also after the snapshot containing the new entry is delivered.
C7_Original ==
    [][/\ ApplicationSucceeds =>
            /\ gallonsUsedOnRoad' = 0
            /\ selectedRoad' = BlankText
            /\ UNCHANGED <<chemicalMix, weatherVars>>
       /\ DeliversSubmitted =>
            /\ UNCHANGED <<gallonsUsedOnRoad, selectedRoad>>
            /\ MixContents(chemicalMix') = MixContents(chemicalMix)
            /\ weather' = lastSubmitted.weather
            /\ temperature' = lastSubmitted.temperature
            /\ windDirection' = lastSubmitted.windDirection
            /\ windSpeed' = lastSubmitted.windSpeed]_vars

\* C7 (amended): as stated, except that after the delivery the weather text
\* is the submitted text with its surrounding white space trimmed.
C7_FormAfterApplication ==
    [][/\ ApplicationSucceeds =>
            /\ gallonsUsedOnRoad' = 0
            /\ selectedRoad' = BlankText
            /\ UNCHANGED <<chemicalMix, weatherVars>>
       /\ DeliversSubmitted =>
            /\ UNCHANGED <<gallonsUsedOnRoad, selectedRoad>>
            /\ MixContents(chemicalMix') = MixContents(chemicalMix)
            /\ weather' = Trim(lastSubmitted.weather)
            /\ temperature' = lastSubmitted.temperature
            /\ windDirection' = lastSubmitted.windDirection
            /\ windSpeed' = lastSubmitted.windSpeed]_vars

\* C7 witness: the application has returned and its snapshot is delivered;
\* the weather text was submitted with white space and wind direction was
\* not the default.
C7_Witness ==
    /\ logs # <<>>
    /\ logs[1].id = lastSubmitted.id
    /\ calls = <<>>
    /\ gallonsUsedOnRoad = 0
    /\ selectedRoad = BlankText
    /\ chemicalMix = lastSubmitted.chemicalMix
    /\ chemicalMix # <<>>
    /\ lastSubmitted.weather # Trim(lastSubmitted.weather)
    /\ weather = Trim(lastSubmitted.weather)
    /\ windDirection = "North"
    /\ windDirection = lastSubmitted.windDirection

\* The catch of logApplication or of performRefill runs.
WriteFails ==
    \E i \in 1..Len(calls) :
        /\ ~calls[i].ok
        /\ ApplicationReturn(i) \/ RefillReturn(i)

ResetFails    == \E i \in 1..Len(calls) : ResetCatch(i)

\* A reset resumes after Promise.all while a document it listed is still in
\* the collection.
ResetSucceedsEarly ==
    \E i \in 1..Len(calls) :
        /\ ResetReturn(i)
        /\ calls[i].listed \cap DocIds(store) # {}

ResetSucceeds == \E i \in 1..Len(calls) : ResetReturn(i)

FormDefaults ==
    /\ gallonsUsedOnRoad = 0
    /\ gallonsToRefill = 0
    /\ chemicalMix = <<>>
    /\ selectedRoad = BlankText
    /\ weather = BlankText
    /\ temperature = DefaultTemperature
    /\ windDirection = DefaultWindDir
    /\ windSpeed = DefaultWindSpeed

\* C8: a failed write of an application or of a refill, and a failed reset,
\* are reported by the status message and leave the form, the capacity and
\* the level as they were; a reset puts the local state back to its defaults
\* only once every document it listed has been deleted.
C8_FailureKeepsForm ==
    [][/\ WriteFails =>
            /\ status' \in {StLogError, StRefillError}
            /\ UNCHANGED <<formVars, tankVars>>
       /\ ResetFails =>
            /\ status' = StResetFailed
            /\ UNCHANGED <<formVars, tankVars>>
       /\ ~ResetSucceedsEarly
       /\ ResetSucceeds =>
            /\ status' = StReset
            /\ FormDefaults'
            /\ startingGallons' = DefaultCapacity
            /\ gallonsLeft' = DefaultCapacity]_vars

\* C8 witness: a reset failed after deleting one of two documents, and the
\* form still holds what the user entered.
C8_Witness ==
    /\ status = StResetFailed
    /\ calls = <<>>
    /\ Len(store) = 1
    /\ nextId = 3
    /\ chemicalMix # <<>>
    /\ weather # BlankText

\* An accepted refill: handleRefill adds its document to the collection.
RefillAccepted == HandleRefillStep /\ WritesDoc

\* C9: for level <= capacity and a positive requested amount, an accepted
\* refill has newLevel = min(capacity, level + requested) and actualAdded =
\* newLevel - level; when level + requested > capacity, actualAdded =
\* capacity - level and newLevel = capacity.  The entry stores -actualAdded
\* and newLevel to two decimals, and the handler keeps actualAdded for its
\* message.
C9_RefillArithmetic ==
    [][(RefillAccepted /\ gallonsLeft <= startingGallons /\ gallonsToRefill > 0) =>
          LET newLevel    == Min(startingGallons, gallonsLeft + gallonsToRefill)
              actualAdded == newLevel - gallonsLeft
          IN  /\ NewDoc.gallonsUsed = -actualAdded
              /\ NewDoc.gallonsLeft = ToFixed2(newLevel)
              /\ calls'[Len(calls')].amount = actualAdded
              /\ gallonsLeft + gallonsToRefill > startingGallons =>
                    /\ actualAdded = startingGallons - gallonsLeft
                    /\ NewDoc.gallonsLeft = ToFixed2(startingGallons)]_vars

\* C9 witness: capacity 600, level 590, requested 50: added 10, new level 600.
C9_Witness ==
    /\ store # <<>>
    /\ LET e == store[Len(store)]
       IN  /\ IsRefill(e)
           /\ e.initialTankVolume = 600 * 1000
           /\ e.gallonsUsed = -10 * 1000
           /\ e.gallonsLeft = 600 * 1000
    /\ gallonsToRefill = 50 * 1000
    /\ gallonsLeft = 590 * 1000
    /\ calls # <<>>
    /\ calls[1].amount = 10 * 1000

\* C10: a refill requested when the level equals the capacity, or whenever
\* actualAdded is at most 0.01 gallon, is rejected: no entry is written and
\* the level and the refill-amount field are unchanged.
C10_NegligibleRefillRejected ==
    [][(/\ HandleRefillStep
        /\ \/ gallonsLeft = startingGallons
           \/ Min(startingGallons, gallonsLeft + gallonsToRefill) - gallonsLeft
                 <= Epsilon)
          => /\ NoWrite
             /\ UNCHANGED <<gallonsLeft, gallonsToRefill, startingGallons, logs>>]_vars

\* C10 witness: 0.01 gallon was requested with room in the tank, and the
\* refill was rejected.
C10_Witness ==
    /\ status = StTankFull
    /\ gallonsToRefill = Epsilon
    /\ gallonsLeft + gallonsToRefill < startingGallons
    /\ store # <<>>
    /\ logs = Reverse(store)
    /\ calls = <<>>

\* The documented defaults a reset puts the local state back to.
ResetDefaults ==
    /\ FormDefaults
    /\ startingGallons = DefaultCapacity
    /\ gallonsLeft = DefaultCapacity

\* C14: after a reset whose deletes all succeeded and with no further user
\* input, the state stays the documented default (capacity 600, level 600,
\* empty mix, blank road, weather cleared, temperature 70, wind South West at
\* 5) through every snapshot delivery still pending, whatever the order of
\* those deliveries and the local reset.
C14_ResetDefaultsKept ==
    [][(/\ status = StReset
        /\ calls = <<>>
        /\ ResetDefaults
        /\ DeliverSnapshot) => ResetDefaults']_vars

\* C11: every entry named "TANK REFILL" has the shape of a refill (negative
\* gallonsUsed, empty mix, empty weather conditions) and every other entry is
\* an application with positive gallonsUsed; so no application is classified
\* as a refill by the history and report partition.
C11_SentinelExact ==
    \A i \in 1..Len(store) :
        IF IsRefill(store[i])
        THEN /\ store[i].gallonsUsed < 0
             /\ store[i].chemicalMix = <<>>
             /\ store[i].weatherConditions = EmptyConditions
        ELSE store[i].gallonsUsed > 0

\* A step of a handler that writes an entry, and a delete of a reset.
CreatesEntry == LogApplicationStep \/ HandleRefillStep
DeletesEntry ==
    \E i \in 1..Len(calls) : \E id \in DocIds(store) : ResetDelete(i, id, TRUE)

\* C12: the persisted log is append-only: an entry present before and after
\* a step has identical fields (its chemicalMix snapshot included, whatever
\* is done to the in-progress mix); entries are only created, one at a time
\* and after all others, by an application or a refill, or removed by a
\* delete of the reset.
C12_AppendOnly ==
    [][/\ \A i \in 1..Len(store) : \A j \in 1..Len(store') :
              store[i].id = store'[j].id => store[i] = store'[j]
       /\ \/ store' = store
          \/ /\ CreatesEntry
             /\ Len(store') = Len(store) + 1
             /\ SubSeq(store', 1, Len(store)) = store
             /\ NewDoc.id \notin DocIds(store)
          \/ /\ DeletesEntry
             /\ Len(store') = Len(store) - 1
             /\ DocIds(store') \subseteq DocIds(store)]_vars

\* C12 witness: the first entry was deleted by a reset in progress and the
\* second is still there with the mix it was written with (0.1667 oz/gal at
\* capacity 600), while the in-progress mix has been recalculated for a
\* capacity of 250.
C12_Witness ==
    /\ Len(store) = 1
    /\ store[1].id = 2
    /\ store[1].chemicalMix # <<>>
    /\ store[1].chemicalMix[1].ozPerGal = 1667
    /\ startingGallons = 250 * 1000
    /\ chemicalMix # <<>>
    /\ chemicalMix[1].ozPerGal = 4000

\* An in-progress item's ozPerGal is totalOz / capacity to 4 decimals, or 0
\* when the capacity is not positive.
OzPerGalOf(item, capacity) ==
    IF capacity > 0
    THEN 2 * Abs(item.ozPerGal * capacity - item.totalOz * 10000) <= capacity
    ELSE item.ozPerGal = 0

\* C13: after every capacity change and the recalculation it triggers, every
\* in-progress item has ozPerGal = totalOz / capacity to 4 decimals when
\* capacity > 0 and 0 when capacity <= 0, with its name and totalOz
\* unchanged (the reset empties the mix); totalOz 100 at capacity 500 is
\* 0.2000 and at capacity 250 is 0.4000.
C13_MixRecalculated ==
    [][startingGallons' # startingGallons =>
          /\ \A i \in 1..Len(chemicalMix') :
                 /\ OzPerGalOf(chemicalMix'[i], startingGallons')
                 /\ chemicalMix'[i].totalOz = 100 * 1000 =>
                        /\ startingGallons' = 500 * 1000 =>
                               chemicalMix'[i].ozPerGal = 2000
                        /\ startingGallons' = 250 * 1000 =>
                               chemicalMix'[i].ozPerGal = 4000
          /\ \/ MixContents(chemicalMix') = MixContents(chemicalMix)
             \/ /\ \E i \in 1..Len(calls) : ResetReturn(i)
                /\ chemicalMix' = <<>>]_vars

\* C13 witness: an item of 100 oz recalculated to 0.4000 oz/gal at capacity
\* 250 after a snapshot delivery had put the capacity back to 500.
C13_Witness ==
    /\ startingGallons = 250 * 1000
    /\ chemicalMix # <<>>
    /\ chemicalMix[1].totalOz = 100 * 1000
    /\ chemicalMix[1].ozPerGal = 4000
    /\ logs # <<>>
    /\ logs[1].initialTankVolume = 500 * 1000

\* C15: after a reset, once every delete it issued is confirmed (the handler
\* has reported "History Reset." and no handler is pending) and every
\* snapshot has been delivered, the log view is empty, also when an
\* application was written while the reset was in progress.
C15_LogEmptyAfterReset ==
    (/\ status = StReset
     /\ calls = <<>>
     /\ listening
     /\ snapQueue = <<>>) => logs = <<>>

\* The snapshot the listener delivers next, and its newest entry.
NextSnapshot == Head(snapQueue)
NewestEntry  == NextSnapshot[Len(NextSnapshot)]

\* C16: a snapshot delivery with a non-empty log sets the displayed tank
\* state to the newest entry's: gallonsLeft and initialTankVolume (both are
\* numbers in every entry), whatever the level, the capacity and the cached
\* log were before; the cached log becomes the snapshot, newest first.
C16_TankFromNewestEntry ==
    [][(DeliverSnapshot /\ NextSnapshot # <<>>) =>
          /\ ~isNaN(NewestEntry.gallonsLeft)
          /\ ~isNaN(NewestEntry.initialTankVolume)
          /\ gallonsLeft' = NewestEntry.gallonsLeft
          /\ startingGallons' = NewestEntry.initialTankVolume
          /\ logs' = Reverse(NextSnapshot)]_vars

\* C16 witness: the capacity had been adjusted to 600.006 and a second entry
\* written under it, when the delivery of the older snapshot put capacity
\* and level back to those of the first entry.
C16_Witness ==
    /\ Len(store) = 2
    /\ Len(logs) = 1
    /\ logs[1] = store[1]
    /\ store[1].initialTankVolume = DefaultCapacity
    /\ store[2].initialTankVolume = 600006
    /\ startingGallons = DefaultCapacity
    /\ gallonsLeft = store[1].gallonsLeft
    /\ gallonsLeft # store[2].gallonsLeft

\* C17 (as stated): a snapshot delivery with an empty log sets gallonsLeft
\* and the capacity to the default capacity, 600, whatever the capacity was
\* adjusted to.
C17_Original ==
    [][(DeliverSnapshot /\ NextSnapshot = <<>>) =>
          /\ gallonsLeft' = DefaultCapacity
          /\ startingGallons' = DefaultCapacity]_vars

\* C17 (amended): a snapshot delivery with an empty log leaves the capacity
\* as configured (600 unless the user adjusted it) and sets gallonsLeft to
\* that capacity.
C17_EmptyLogFullTank ==
    [][(DeliverSnapshot /\ NextSnapshot = <<>>) =>
          /\ startingGallons' = startingGallons
          /\ gallonsLeft' = startingGallons
          /\ logs' = <<>>]_vars

\* C17 witness: the capacity was adjusted to 600.006 with an empty log, and
\* the delivery has raised the level from 600 to it.
C17_Witness ==
    /\ store = <<>>
    /\ logs = <<>>
    /\ snapQueue = <<>>
    /\ startingGallons = 600006
    /\ gallonsLeft = 600006

\* C18: with the backend configuration absent at startup, the effect reports
\* the error by the status message and the system stays not ready ever
\* after: no store handle, no user id, isAuthReady false, no listener; no
\* write or delete is sent (no handler waits for a backend call and the
\* collection does not change), whatever the user does.
C18_NoConfigNeverReady ==
    [][~configPresent =>
          /\ (\E ok \in BOOLEAN : FirebaseInit(ok)) => status' = StConfigMissing
          /\ ~db'
          /\ userId' = ""
          /\ ~isAuthReady'
          /\ ~listening'
          /\ calls' = <<>>
          /\ UNCHANGED <<store, nextId, snapQueue>>]_vars

\* C18 witness: without configuration, a complete application was submitted
\* and turned down as not ready.
C18_Witness ==
    /\ ~configPresent
    /\ initPhase = "ran"
    /\ chemicalMix # <<>>
    /\ gallonsUsedOnRoad > 0
    /\ Trim(weather) # <<>>
    /\ status = StInitial
    /\ store = <<>>

\* C19: a connection error - the sign-in of the session failing, or the
\* subscription failing - is reported by the status message, is not retried,
\* and does not leave the status at its initial value.
C19_ConnectionErrorReported ==
    [][/\ AuthStateChanged(FALSE) =>
            /\ status' # StInitial
            /\ status' # status
       /\ SnapshotError =>
            /\ status' = StLoadError
            /\ ~listening']_vars

\* C20: for every application entry of the cached log and every chemical of
\* its stored mix, the applied ounces of the report (2 decimals) and of the
\* history table (1 decimal) are gallonsUsed * ozPerGal of that entry,
\* whatever the in-progress mix and the capacity are now; gallonsUsed 10
\* with ozPerGal 0.5 gives 5.00 oz.
C20_AppliedFromEntry ==
    LET apps == applicationLogs(logs)
    IN  /\ Len(ReportAppliedOz) = Len(apps)
        /\ Len(HistoryAppliedOz) = Len(apps)
        /\ \A i \in 1..Len(apps) :
             /\ Len(ReportAppliedOz[i]) = Len(apps[i].chemicalMix)
             /\ Len(HistoryAppliedOz[i]) = Len(apps[i].chemicalMix)
             /\ \A j \in 1..Len(apps[i].chemicalMix) :
                  LET exact == apps[i].gallonsUsed * apps[i].chemicalMix[j].ozPerGal
                  IN  /\ 2 * Abs(ReportAppliedOz[i][j] * 100000 - exact) <= 100000
                      /\ 2 * Abs(HistoryAppliedOz[i][j] * 1000000 - exact) <= 1000000
                      /\ (/\ apps[i].gallonsUsed = 10 * 1000
                          /\ apps[i].chemicalMix[j].ozPerGal = 5000) =>
                             /\ ReportAppliedOz[i][j] = 500
                             /\ HistoryAppliedOz[i][j] = 50

\* C20 witness: an entry of 10 gal at 0.5 oz/gal is reported as 5.00 oz
\* while the capacity is now 250 and the in-progress item 0.4 oz/gal.
C20_Witness ==
    /\ logs # <<>>
    /\ logs[1].gallonsUsed = 10 * 1000
    /\ logs[1].chemicalMix[1].ozPerGal = 5000
    /\ ReportAppliedOz[1][1] = 500
    /\ HistoryAppliedOz[1][1] = 50
    /\ startingGallons = 250 * 1000
    /\ chemicalMix # <<>>
    /\ chemicalMix[1].ozPerGal = 4000

\* The dependencies of the listener effect (db, userId, startingGallons)
\* change in the step, so the effect's cleanup and then its body run.
EffectReruns == <<db, userId, startingGallons>>' # <<db, userId, startingGallons>>

\* C21: at most one listener is active: when the subscription is
\* re-established (store handle, user id or capacity change) the previous
\* listener is unsubscribed, so that only the new listener's first snapshot
\* is pending; when the effect re-runs without store handle or user, and
\* when the component is unmounted, no listener is left; a listener that is
\* not active has nothing to deliver, and the cached log changes only by the
\* active listener delivering its oldest pending snapshot; after the unmount
\* the cached log and the tank state never change.
C21_OneListener ==
    [][/\ (EffectReruns /\ CanSubscribe') =>
            (listening' /\ snapQueue' = <<store'>>)
       /\ (EffectReruns /\ ~CanSubscribe') =>
            (~listening' /\ snapQueue' = <<>>)
       /\ Unmount => (~listening' /\ snapQueue' = <<>>)
       /\ ~listening' => snapQueue' = <<>>
       /\ logs' # logs =>
            /\ listening
            /\ snapQueue # <<>>
            /\ logs' = Reverse(Head(snapQueue))
       /\ initPhase = "unmounted" => UNCHANGED <<logs, tankVars>>]_vars

\* C21 witness: two entries were written and their snapshots were still
\* pending when the capacity was adjusted; the previous listener's snapshots
\* are gone undelivered and the new listener has the whole collection to
\* deliver.
C21_Witness ==
    /\ Len(store) = 2
    /\ logs = <<>>
    /\ listening
    /\ snapQueue = <<store>>
    /\ startingGallons = 600006

\* Index of the newest refill entry of the collection, 0 when there is none.
RECURSIVE LastRefill(_, _)
LastRefill(docs, i) ==
    IF i = 0 THEN 0
    ELSE IF IsRefill(docs[i]) THEN i
    ELSE LastRefill(docs, i - 1)

RECURSIVE SumUsed(_, _, _)
SumUsed(docs, from, to) ==
    IF from > to THEN 0 ELSE docs[from].gallonsUsed + SumUsed(docs, from + 1, to)

\* Gallons applied by the entries written after the newest refill, and the
\* level that refill left (with no refill, the capacity the first entry was
\* written under: an empty log shows a full tank).
AppliedSinceRefill(docs) == SumUsed(docs, LastRefill(docs, Len(docs)) + 1, Len(docs))

LevelAtRefill(docs) ==
    IF LastRefill(docs, Len(docs)) = 0
    THEN docs[1].initialTankVolume
    ELSE docs[LastRefill(docs, Len(docs))].gallonsLeft

\* C22: every write (application or refill) is validated against and
\* computed from the level left by the entry written before it, also when
\* the snapshot containing that entry has not been delivered yet; so no two
\* entries are computed from the same prior level and the gallons applied
\* since the last refill never exceed the level available at that refill.
C22_WriteFromNewestLevel ==
    [][(WritesDoc /\ store # <<>>) =>
          /\ gallonsLeft = store[Len(store)].gallonsLeft
          /\ AppliedSinceRefill(store') <= LevelAtRefill(store')]_vars

\* A delivery that brings nothing new: the snapshot is the log already
\* cached.
RedeliversLog == DeliverSnapshot /\ Reverse(NextSnapshot) = logs

\* C23: a capacity the user has set stays until the user changes it again, a
\* reset succeeds, or a delivery brings a log other than the cached one; in
\* particular the re-subscription the capacity change itself triggers, which
\* redelivers the unchanged non-empty log, does not put the capacity back to
\* the newest entry's initialTankVolume.
C23_AdjustmentDurable ==
    [][startingGallons' # startingGallons =>
          \/ \E v \in CapacityInputs : AdjustCapacity(v)
          \/ \E i \in 1..Len(calls) : ResetReturn(i)
          \/ DeliverSnapshot /\ ~RedeliversLog]_vars

\* A delivery whose snapshot has the application entries already cached: the
\* user's own refill, or a redelivery of the unchanged log.
DeliversNoNewApplication ==
    /\ DeliverSnapshot
    /\ applicationLogs(Reverse(NextSnapshot)) = applicationLogs(logs)

\* C24: a snapshot delivery that adds no new application entry leaves
\* weather, temperature, wind direction and wind speed as the user last
\* edited them; they are not re-seeded from the most recent application
\* entry.
C24_WeatherEditsKept ==
    [][DeliversNoNewApplication => UNCHANGED weatherVars]_vars

====
